---- MODULE Spec2Model ----
(***************************************************************************)
(* Label-indexed sparse-volume subsystem of DVID (package labels64):       *)
(* ComputeSurface, ComputeSizes, GetSparseVol and GetSizeRange, modelled   *)
(* as state machines over the chunk stream, the stores and the batches.    *)
(***************************************************************************)
EXTENDS Bags, FiniteSets, Integers, Sequences, TLC

(***************************************************************************)
(* Bounds of the model.                                                    *)
(***************************************************************************)
\* Longest chunk stream (before the nil sentinel) whose chunks are chosen freely.
MaxChunks == 4
\* Labels are 0..MaxLabel; 0 is the background label.
MaxLabel == 2
\* Capacity of the admission pool server.HandlerToken.
TokenCap == 2
\* A stream of distinct contiguous labels has up to BATCH_SIZE + ExtraLabels chunks.
ExtraLabels == 2
\* Most spatial index entries of the label GetSparseVol scans.
MaxEntries == 3
\* Workers from which a concurrent ProcessRange invokes the callback.
ConcurrentWorkers == 2
\* Capacity of the channel between a producer and its consumer.
ChanCap == 1

Labels == 0..MaxLabel

\* One run of a chunk: the block it lies in and its length in voxels.
Run(b, n) == [block |-> b, len |-> n]

\* The value of the chunk a scan emits for its b-th block: the serialized RLEs
\* of one run of one or two voxels, or bytes that do not decode.
ChunkValues(b) ==
    { [ok |-> TRUE, runs |-> <<Run(b, 1)>>],
      [ok |-> TRUE, runs |-> <<Run(b, 2)>>],
      [ok |-> FALSE, runs |-> <<>>] }

\* The chunks that can arrive as the b-th chunk of a stream: chunk.ChunkOp.Op is
\* the label, chunk.V the value.
Chunks(b) == [label : Labels, V : ChunkValues(b)]

VARIABLES
    \* ---- ComputeSurface ----
    sfPc,          \* "loop" | "defer" | "returned"
    sfDefer,       \* index of the next statement of the deferred function
    sfCurVol,      \* curVol: [label, runs]
    sfCurLabel,    \* curLabel
    sfNotFirst,    \* notFirst
    surfaceStore,  \* big data store, label surface index: label -> blob
    sfWg,          \* counter of the wait group passed to ComputeSurface
    handlerToken,  \* number of tokens in the channel server.HandlerToken
    \* history of the ComputeSurface run
    sfReceived,    \* chunks received, in order
    sfSentinel,    \* the nil sentinel was received
    sfCalls,       \* volumes passed to computeAndSaveSurface, in order
    sfSaveErr,     \* a computeAndSaveSurface call returned an error
    sfDecodeErr,   \* an AddRLEs call returned an error
    sfDone,        \* number of wg.Done() calls
    sfSends        \* number of completed sends on server.HandlerToken

sfVars == <<sfPc, sfDefer, sfCurVol, sfCurLabel, sfNotFirst, surfaceStore, sfWg,
            handlerToken, sfReceived, sfSentinel, sfCalls, sfSaveErr, sfDecodeErr,
            sfDone, sfSends>>

VARIABLES
    \* ---- ComputeSizes ----
    szPc,          \* "idle" | "start" | "loop" | "returned"
    szBatcherOk,   \* the small data store is a storage.KeyValueBatcher
    szCurLabel,    \* curLabel
    szCurSize,     \* curSize
    szPutsInBatch, \* putsInBatch
    szNotFirst,    \* notFirst
    szBatch,       \* batch: [puts: bag of keys, committed: Commit was called]
    sizeIndex,     \* small data store, label sizes index: the set of keys
    szWg,          \* counter of the wait group passed to ComputeSizes
    \* the producer of sizeCh
    szPlan,        \* "free": any chunks; "distinct": every chunk a new label
    \* history of the ComputeSizes run
    szReceived,    \* the first MaxChunks chunks received, in order
    szRecvCount,   \* number of chunks received
    szSentinel,    \* the nil sentinel was received
    szPutBag,      \* bag of all keys Put into any batch
    szCommitsMid,  \* Commit calls made before the sentinel was received
    szCommitsEnd,  \* Commit calls made on the sentinel
    szCommitErrMid,\* a threshold-triggered Commit failed
    szCommitErrEnd,\* the Commit at stream end failed
    szDecodeErr,   \* an UnmarshalBinary call returned an error
    szDone         \* number of wg.Done() calls

szVars == <<szPc, szBatcherOk, szCurLabel, szCurSize, szPutsInBatch, szNotFirst,
            szBatch, sizeIndex, szWg, szPlan, szReceived, szRecvCount, szSentinel,
            szPutBag, szCommitsMid, szCommitsEnd, szCommitErrMid, szCommitErrEnd,
            szDecodeErr, szDone>>

VARIABLES
    \* ---- GetSparseVol ----
    svPc,          \* "idle" | "scan" | "wait" | "returned"
    svEntries,     \* values of the label's spatial index entries, in key order
    svWorkers,     \* workers ProcessRange invokes the callback from (1: inline)
    svNext,        \* index of the next entry ProcessRange hands to the callback
    svCalls,       \* running callbacks: entry index -> [pc, tmp]
    svOp,          \* op: [encoding, numBlocks, numRuns]
    svWg,          \* counter of the wait group wg
    svResult       \* the returned encoding

svVars == <<svPc, svEntries, svWorkers, svNext, svCalls, svOp, svWg, svResult>>

VARIABLES
    \* ---- GetSizeRange ----
    qPc,           \* "idle" | "ready" | "returned"
    qIndex,        \* small data store, label sizes index: the set of keys
    qCall,         \* the last call: [minSize, maxSize, storeOk, scanOk]
    qResult        \* what the last call returned: [json, err]

qVars == <<qPc, qIndex, qCall, qResult>>

VARIABLES
    \* ---- GetSurface ----
    gsPc,          \* "idle" | "ready" | "returned"
    gsStore,       \* big data store, label surface index: label -> blob
    gsCall,        \* the call: [label, storeOk, getOk]
    gsResult       \* what the call returned: [bytes, found, err]

gsVars == <<gsPc, gsStore, gsCall, gsResult>>

VARIABLES
    \* ---- StoreKeyLabelSpatialMap ----
    smPc,          \* "idle" | "loop" | "returned"
    smLabelRLEs,   \* labelRLEs: a map from labels to RLEs values
    smZyx,         \* zyxBytes
    smTodo,        \* the labels the range loop has yet to visit
    smBatch,       \* batch: the puts issued, [key, value] each
    smMarshalErr,  \* MarshalBinary failed
    smCommits,     \* calls of batch.Commit()
    smCommitted,   \* the puts the batch held when Commit was called
    smStore        \* the spatial index in the store: key -> value pairs

smVars == <<smPc, smLabelRLEs, smZyx, smTodo, smBatch, smMarshalErr, smCommits,
            smCommitted, smStore>>

VARIABLES
    \* ---- the producer of a label stream and its channel ----
    pdPc,          \* "idle" | "sending" | "done"
    pdLen,         \* the number of chunks of the stream
    pdSent,        \* the chunks sent so far
    ch             \* the channel: the values sent and not yet received

pdVars == <<pdPc, pdLen, pdSent, ch>>

vars == <<sfVars, szVars, svVars, qVars, gsVars, smVars, pdVars>>

sfOthers == <<szVars, svVars, qVars, gsVars, smVars>>
szOthers == <<sfVars, svVars, qVars, gsVars, smVars>>
svOthers == <<sfVars, szVars, qVars, gsVars, smVars, pdVars>>
qOthers == <<sfVars, szVars, svVars, gsVars, smVars, pdVars>>
gsOthers == <<sfVars, szVars, svVars, qVars, smVars, pdVars>>
smOthers == <<sfVars, szVars, svVars, qVars, gsVars, pdVars>>
pdOthers == <<sfVars, szVars, svVars, qVars, gsVars, smVars>>

(***************************************************************************)
(* dvid.SparseVol as ComputeSurface uses it.                               *)
(***************************************************************************)
\* var curVol dvid.SparseVol
ZeroVol == [label |-> 0, runs |-> <<>>]

\* curVol.Clear()
Clear(vol) == [vol EXCEPT !.runs = <<>>]

\* curVol.SetLabel(label)
SetLabel(vol, label) == [vol EXCEPT !.label = label]

\* curVol.AddRLEs(chunk.V): the runs of the value are merged into the volume;
\* bytes that do not decode are an error and leave the volume as it was.
AddRLEsErr(v) == ~v.ok

AddRLEs(vol, v) == [vol EXCEPT !.runs = @ \o v.runs]

\* The blob computeAndSaveSurface stores for a volume: its surface, serialized
\* with gzip compression.
NoBlob == [present |-> FALSE]

SurfaceBlob(vol) ==
    [present |-> TRUE, compression |-> "gzip", surfaceOf |-> vol.runs]

(***************************************************************************)
(* ComputeSurface                                                          *)
(***************************************************************************)
\* The deferred function: wg.Done(), then server.HandlerToken <- 1.
SwappedSurfaceDeferred == <<"HandlerToken", "Done">>

SurfaceDeferred == <<"Done", "HandlerToken">>

SurfaceBoundaryNoZero(label, curLabel) == label # curLabel

\* if label != curLabel || label == 0
SurfaceBoundary(label, curLabel) == label # curLabel \/ label = 0

\* if notFirst (on the nil sentinel): finalize the volume being accumulated.
SurfaceFinalizeAtEnd(notFirst) == notFirst

SurfaceContinueOnAddRLEsErr == "loop"

\* if err := curVol.AddRLEs(chunk.V); err != nil { ...; return }: the deferred
\* function runs next.
SurfaceOnAddRLEsErr == "defer"

SurfaceInit ==
    /\ sfPc = "loop"
    /\ sfDefer = 1
    /\ sfCurVol = ZeroVol
    /\ sfCurLabel = 0
    /\ sfNotFirst = FALSE
    /\ surfaceStore = [l \in Labels |-> NoBlob]
    /\ sfWg = 1
    \* the launcher took this run's permit from the full pool
    /\ handlerToken = TokenCap - 1
    /\ sfReceived = <<>>
    /\ sfSentinel = FALSE
    /\ sfCalls = <<>>
    /\ sfSaveErr = FALSE
    /\ sfDecodeErr = FALSE
    /\ sfDone = 0
    /\ sfSends = 0

\* data.computeAndSaveSurface(ctx, &curVol): saveOk is whether the surface
\* serialization, the store lookup, the compression and the Put all succeed.
computeAndSaveSurface(vol, saveOk) ==
    /\ sfCalls' = Append(sfCalls, vol)
    /\ sfSaveErr' = ~saveOk
    /\ surfaceStore' = IF saveOk
                         THEN [surfaceStore EXCEPT ![vol.label] = SurfaceBlob(vol)]
                         ELSE surfaceStore

noSurfaceCall == UNCHANGED <<sfCalls, sfSaveErr, surfaceStore>>

\* chunk := <-ch with chunk == nil
SurfaceSentinel ==
    /\ sfPc = "loop"
    /\ sfSentinel' = TRUE
    /\ IF SurfaceFinalizeAtEnd(sfNotFirst)
         THEN \E saveOk \in BOOLEAN : computeAndSaveSurface(sfCurVol, saveOk)
         ELSE noSurfaceCall
    /\ sfPc' = "defer"
    /\ UNCHANGED <<sfDefer, sfCurVol, sfCurLabel, sfNotFirst, sfWg, handlerToken,
                   sfReceived, sfDecodeErr, sfDone, sfSends>>
    /\ UNCHANGED sfOthers

\* chunk := <-ch with a chunk: one iteration of the loop.
SurfaceChunk(chunk) ==
    /\ sfPc = "loop"
    /\ Len(sfReceived) < MaxChunks
    /\ sfReceived' = Append(sfReceived, chunk)
    /\ LET label == chunk.label
           boundary == SurfaceBoundary(label, sfCurLabel)
           finalize == boundary /\ sfNotFirst
       IN  \E saveOk \in BOOLEAN :
             /\ IF finalize
                  THEN computeAndSaveSurface(sfCurVol, saveOk)
                  ELSE saveOk /\ noSurfaceCall
             /\ IF finalize /\ ~saveOk
                  THEN \* return
                       /\ sfPc' = "defer"
                       /\ UNCHANGED <<sfCurVol, sfCurLabel, sfNotFirst, sfDecodeErr>>
                  ELSE LET vol == IF boundary
                                    THEN SetLabel(Clear(sfCurVol), label)
                                    ELSE sfCurVol
                       IN  IF AddRLEsErr(chunk.V)
                             THEN /\ sfCurVol' = vol
                                  /\ sfDecodeErr' = TRUE
                                  /\ sfPc' = SurfaceOnAddRLEsErr
                                  /\ UNCHANGED <<sfCurLabel, sfNotFirst>>
                             ELSE /\ sfCurVol' = AddRLEs(vol, chunk.V)
                                  /\ sfCurLabel' = label
                                  /\ sfNotFirst' = TRUE
                                  /\ UNCHANGED <<sfPc, sfDecodeErr>>
    /\ UNCHANGED <<sfDefer, sfSentinel, sfWg, handlerToken, sfDone, sfSends>>
    /\ UNCHANGED sfOthers

\* One statement of the deferred function. The send on the buffered channel
\* server.HandlerToken blocks while the channel is full.
SurfaceDeferStep ==
    /\ sfPc = "defer"
    /\ IF SurfaceDeferred[sfDefer] = "Done"
         THEN /\ sfWg' = sfWg - 1
              /\ sfDone' = sfDone + 1
              /\ UNCHANGED <<handlerToken, sfSends>>
         ELSE /\ handlerToken < TokenCap
              /\ handlerToken' = handlerToken + 1
              /\ sfSends' = sfSends + 1
              /\ UNCHANGED <<sfWg, sfDone>>
    /\ sfDefer' = sfDefer + 1
    /\ sfPc' = IF sfDefer = Len(SurfaceDeferred) THEN "returned" ELSE "defer"
    /\ UNCHANGED <<sfCurVol, sfCurLabel, sfNotFirst, surfaceStore, sfReceived,
                   sfSentinel, sfCalls, sfSaveErr, sfDecodeErr>>
    /\ UNCHANGED sfOthers

(***************************************************************************)
(* Store keys (package voxels): a tag byte, then big-endian 8-byte fields. *)
(***************************************************************************)
\* The tag byte of the label sizes index.
KeyLabelSizes == 5

Pow256(k) == IF k = 1 THEN 1 ELSE IF k = 2 THEN 256 ELSE IF k = 3 THEN 65536 ELSE 16777216

\* binary.BigEndian.PutUint64 of a value below 2^31 (all this model uses, but for
\* math.MaxUint64, which is MaxUint64Bytes).
BigEndian8(n) ==
    [i \in 1..8 |-> IF i <= 4 THEN 0 ELSE (n \div Pow256(9 - i)) % 256]

\* binary.BigEndian.Uint64 of 8 bytes whose value is below 2^31.
FromBigEndian8(b) ==
    b[5] * 16777216 + b[6] * 65536 + b[7] * 256 + b[8]

MaxUint64Bytes == [i \in 1..8 |-> 255]

\* voxels.NewLabelSizesIndex(size, label), the fields given as 8 bytes each.
LabelSizesKey(sizeBytes, labelBytes) == <<KeyLabelSizes>> \o sizeBytes \o labelBytes

NewLabelSizesIndex(size, label) == LabelSizesKey(BigEndian8(size), BigEndian8(label))

(***************************************************************************)
(* dvid.RLEs as ComputeSizes uses it.                                      *)
(***************************************************************************)
\* rles.UnmarshalBinary(chunk.V) returns an error
UnmarshalErr(v) == ~v.ok

RECURSIVE SumLen(_)
SumLen(runs) == IF runs = <<>> THEN 0 ELSE Head(runs).len + SumLen(Tail(runs))

\* numVoxels, _ := rles.Stats()
Stats(runs) == SumLen(runs)

(***************************************************************************)
(* ComputeSizes                                                            *)
(***************************************************************************)
BATCH_SIZE == 10000

\* batcher.NewBatch(ctx)
NewBatch == [puts |-> EmptyBag, committed |-> FALSE]

\* batch.Put(key, dvid.EmptyValue())
BatchPut(batch, key) == [batch EXCEPT !.puts = @ (+) SetToBag({key})]

SizesNewLabelNever(notFirst, label, curLabel) == FALSE

\* if notFirst && label != curLabel
SizesNewLabel(notFirst, label, curLabel) == notFirst /\ label # curLabel

SizesFlushDueEarly(putsInBatch) == (putsInBatch + 1) % BATCH_SIZE = 0

SizesFlushNever(putsInBatch) == FALSE

\* if putsInBatch%BATCH_SIZE == 0
SizesFlushDue(putsInBatch) == putsInBatch % BATCH_SIZE = 0

SizesKeepSize(curSize) == curSize

\* curSize = 0 (after the key of the finished label is built)
SizesResetSize(curSize) == 0

\* The chunk a producer of distinct contiguous labels sends as its b-th: the next
\* non-zero label in turn, one run of one voxel (or bytes that do not decode).
DistinctChunks(b) ==
    { [label |-> ((b - 1) % MaxLabel) + 1, V |-> v] :
        v \in { [ok |-> TRUE, runs |-> <<Run(b, 1)>>], [ok |-> FALSE, runs |-> <<>>] } }

SizesInputs ==
    IF szPlan = "free"
      THEN IF szRecvCount < MaxChunks THEN Chunks(szRecvCount + 1) ELSE {}
      ELSE IF szRecvCount < BATCH_SIZE + ExtraLabels
             THEN DistinctChunks(szRecvCount + 1) ELSE {}

SizesInit ==
    /\ szPc = "start"
    /\ szBatcherOk \in BOOLEAN
    /\ szCurLabel = 0
    /\ szCurSize = 0
    /\ szPutsInBatch = 0
    /\ szNotFirst = FALSE
    /\ szBatch = NewBatch
    /\ sizeIndex = {}
    /\ szWg = 1
    /\ szPlan \in {"free", "distinct"}
    /\ szReceived = <<>>
    /\ szRecvCount = 0
    /\ szSentinel = FALSE
    /\ szPutBag = EmptyBag
    /\ szCommitsMid = 0
    /\ szCommitsEnd = 0
    /\ szCommitErrMid = FALSE
    /\ szCommitErrEnd = FALSE
    /\ szDecodeErr = FALSE
    /\ szDone = 0

\* ComputeSizes is not running.
SizesIdle ==
    /\ szPc = "idle"
    /\ szBatcherOk = TRUE
    /\ szCurLabel = 0
    /\ szCurSize = 0
    /\ szPutsInBatch = 0
    /\ szNotFirst = FALSE
    /\ szBatch = NewBatch
    /\ sizeIndex = {}
    /\ szWg = 0
    /\ szPlan = "free"
    /\ szReceived = <<>>
    /\ szRecvCount = 0
    /\ szSentinel = FALSE
    /\ szPutBag = EmptyBag
    /\ szCommitsMid = 0
    /\ szCommitsEnd = 0
    /\ szCommitErrMid = FALSE
    /\ szCommitErrEnd = FALSE
    /\ szDecodeErr = FALSE
    /\ szDone = 0

\* batch.Commit(): when it succeeds the keys of the batch are in the store.
Commit(batch, commitOk) ==
    IF commitOk THEN sizeIndex \cup BagToSet(batch.puts) ELSE sizeIndex

\* The deferred function: wg.Done().
SizesDeferred ==
    /\ szWg' = szWg - 1
    /\ szDone' = szDone + 1

\* batcher, ok := smalldata.(storage.KeyValueBatcher); batch := batcher.NewBatch(ctx);
\* the deferred function is registered after the type assertion.
SizesStart ==
    /\ szPc = "start"
    /\ szPc' = IF szBatcherOk THEN "loop" ELSE "returned"
    /\ szBatch' = NewBatch
    /\ UNCHANGED <<szBatcherOk, szCurLabel, szCurSize, szPutsInBatch, szNotFirst,
                   sizeIndex, szWg, szPlan, szReceived, szRecvCount, szSentinel,
                   szPutBag, szCommitsMid, szCommitsEnd, szCommitErrMid,
                   szCommitErrEnd, szDecodeErr, szDone>>
    /\ UNCHANGED szOthers

\* chunk := <-sizeCh with chunk == nil
SizesSentinel ==
    /\ szPc = "loop"
    /\ szSentinel' = TRUE
    /\ LET key == NewLabelSizesIndex(szCurSize, szCurLabel)
           batch == BatchPut(szBatch, key)
       IN  \E commitOk \in BOOLEAN :
             /\ szPutBag' = szPutBag (+) SetToBag({key})
             /\ szBatch' = [batch EXCEPT !.committed = TRUE]
             /\ sizeIndex' = Commit(batch, commitOk)
             /\ szCommitsEnd' = szCommitsEnd + 1
             /\ szCommitErrEnd' = ~commitOk
    /\ SizesDeferred
    /\ szPc' = "returned"
    /\ UNCHANGED <<szBatcherOk, szCurLabel, szCurSize, szPutsInBatch, szNotFirst,
                   szPlan, szReceived, szRecvCount, szCommitsMid, szCommitErrMid,
                   szDecodeErr>>
    /\ UNCHANGED szOthers

\* chunk := <-sizeCh with a chunk: one iteration of the loop.
SizesChunk(chunk) ==
    /\ szPc = "loop"
    /\ chunk \in SizesInputs
    /\ szRecvCount' = szRecvCount + 1
    /\ szReceived' = IF Len(szReceived) < MaxChunks
                       THEN Append(szReceived, chunk) ELSE szReceived
    /\ IF UnmarshalErr(chunk.V)
         THEN \* return
              /\ szDecodeErr' = TRUE
              /\ SizesDeferred
              /\ szPc' = "returned"
              /\ UNCHANGED <<szCurLabel, szCurSize, szPutsInBatch, szNotFirst, szBatch,
                             sizeIndex, szPutBag, szCommitsMid, szCommitErrMid>>
         ELSE /\ UNCHANGED szDecodeErr
              /\ LET label == chunk.label
                     numVoxels == Stats(chunk.V.runs)
                 IN  IF SizesNewLabel(szNotFirst, label, szCurLabel)
                       THEN LET key == NewLabelSizesIndex(szCurSize, szCurLabel)
                                batch == BatchPut(szBatch, key)
                                size == SizesResetSize(szCurSize)
                            IN  /\ szPutBag' = szPutBag (+) SetToBag({key})
                                /\ szPutsInBatch' = szPutsInBatch + 1
                                /\ IF SizesFlushDue(szPutsInBatch + 1)
                                     THEN \E commitOk \in BOOLEAN :
                                            /\ szCommitsMid' = szCommitsMid + 1
                                            /\ szCommitErrMid' = ~commitOk
                                            /\ sizeIndex' = Commit(batch, commitOk)
                                            /\ IF commitOk
                                                 THEN /\ szBatch' = NewBatch
                                                      /\ szCurLabel' = label
                                                      /\ szCurSize' = size + numVoxels
                                                      /\ szNotFirst' = TRUE
                                                      /\ UNCHANGED <<szPc, szWg, szDone>>
                                                 ELSE \* return
                                                      /\ szBatch' = [batch EXCEPT !.committed = TRUE]
                                                      /\ szCurSize' = size
                                                      /\ SizesDeferred
                                                      /\ szPc' = "returned"
                                                      /\ UNCHANGED <<szCurLabel, szNotFirst>>
                                     ELSE /\ szBatch' = batch
                                          /\ szCurLabel' = label
                                          /\ szCurSize' = size + numVoxels
                                          /\ szNotFirst' = TRUE
                                          /\ UNCHANGED <<szPc, szWg, szDone, sizeIndex,
                                                         szCommitsMid, szCommitErrMid>>
                       ELSE /\ szCurLabel' = label
                            /\ szCurSize' = szCurSize + numVoxels
                            /\ szNotFirst' = TRUE
                            /\ UNCHANGED <<szPc, szWg, szDone, szBatch, sizeIndex, szPutBag,
                                           szPutsInBatch, szCommitsMid, szCommitErrMid>>
    /\ UNCHANGED <<szBatcherOk, szPlan, szSentinel, szCommitsEnd, szCommitErrEnd>>
    /\ UNCHANGED szOthers

\* ComputeSizes fed any stream: the channel is not modelled.
NextSizes ==
    \/ SizesStart /\ UNCHANGED pdVars
    \/ SizesSentinel /\ UNCHANGED pdVars
    \/ \E chunk \in SizesInputs : SizesChunk(chunk) /\ UNCHANGED pdVars

\* ComputeSurface fed any stream: the channel is not modelled.
NextSurface ==
    \/ SurfaceSentinel /\ UNCHANGED pdVars
    \/ \E chunk \in Chunks(Len(sfReceived) + 1) : SurfaceChunk(chunk) /\ UNCHANGED pdVars
    \/ SurfaceDeferStep /\ UNCHANGED pdVars

(***************************************************************************)
(* Little-endian fields and run records of the sparse volume encoding.     *)
(***************************************************************************)
\* binary.LittleEndian.PutUint32 of a value below 2^31
LittleEndian4(n) == [i \in 1..4 |-> (n \div Pow256(i)) % 256]

\* binary.LittleEndian.Uint32 of 4 bytes
FromLittleEndian4(b) == b[1] + b[2] * 256 + b[3] * 65536 + b[4] * 16777216

\* The 16 bytes of one run of RLEs.MarshalBinary: the start coordinate (x, y, z)
\* and the length, each an int32.
RunBytes(r) ==
    LittleEndian4(0) \o LittleEndian4(0) \o LittleEndian4(r.block) \o LittleEndian4(r.len)

\* The values a spatial index entry of block b can hold: the serialization of
\* one run or of two, or one run followed by 8 stray bytes.
EntryValues(b) ==
    { RunBytes(Run(b, 1)),
      RunBytes(Run(b, 1)) \o RunBytes(Run(b, 2)),
      RunBytes(Run(b, 2)) \o LittleEndian4(0) \o LittleEndian4(b) }

\* Every sequence of up to MaxEntries entry values, the i-th of block i.
RECURSIVE EntrySeqs(_)
EntrySeqs(n) ==
    IF n = 0 THEN {<<>>}
    ELSE LET shorter == EntrySeqs(n - 1)
         IN  shorter \cup
             { Append(e, v) : e \in {x \in shorter : Len(x) = n - 1}, v \in EntryValues(n) }

(***************************************************************************)
(* GetSparseVol                                                            *)
(***************************************************************************)
\* dvid.EncodingBinary
EncodingBinary == 0

\* The header written to buf: payload descriptor, uint8(3), byte(0), byte(0),
\* uint32(0) placeholder for # voxels, uint32(0) placeholder for # spans.
SparseVolHeader ==
    <<EncodingBinary, 3, 0, 0>> \o LittleEndian4(0) \o LittleEndian4(0)

SvRunsInBytes(v) == Len(v)

\* uint32(len(chunk.V) / 16)
SvRunsIn(v) == Len(v) \div 16

\* binary.LittleEndian.PutUint32(op.encoding[8:12], op.numRuns)
PutRunCount(encoding, numRuns) ==
    [i \in 1..Len(encoding) |->
        IF i \in 9..12 THEN LittleEndian4(numRuns)[i - 8] ELSE encoding[i]]

\* The statements of the callback, each a read of op followed by a write.
SvCallbackPcs == <<"readBlocks", "writeBlocks", "readEncoding", "writeEncoding",
                   "readRuns", "writeRuns", "done">>

SparseVolInit(workers) ==
    /\ svPc = "scan"
    /\ svEntries \in EntrySeqs(MaxEntries)
    /\ svWorkers = workers
    /\ svNext = 1
    /\ svCalls = <<>>
    /\ svOp = [encoding |-> SparseVolHeader, numBlocks |-> 0, numRuns |-> 0]
    /\ svWg = 0
    /\ svResult = <<>>

\* GetSparseVol is not running.
SparseVolIdle ==
    /\ svPc = "idle"
    /\ svEntries = <<>>
    /\ svWorkers = 1
    /\ svNext = 1
    /\ svCalls = <<>>
    /\ svOp = [encoding |-> SparseVolHeader, numBlocks |-> 0, numRuns |-> 0]
    /\ svWg = 0
    /\ svResult = <<>>

\* ProcessRange reaches the next entry of the range: it adds the chunk to the
\* wait group and invokes the callback on it, from a worker that is free.
SvInvoke ==
    /\ svPc = "scan"
    /\ svNext <= Len(svEntries)
    /\ Cardinality(DOMAIN svCalls) < svWorkers
    /\ svCalls' = (svNext :> [pc |-> 1, tmp |-> 0]) @@ svCalls
    /\ svWg' = svWg + 1
    /\ svNext' = svNext + 1
    /\ UNCHANGED <<svPc, svEntries, svWorkers, svOp, svResult>>
    /\ UNCHANGED svOthers

\* One step of the callback running on entry i (chunk.V is svEntries[i]):
\*   op.numBlocks++
\*   op.encoding = append(op.encoding, chunk.V...)
\*   op.numRuns += uint32(len(chunk.V) / 16)
\*   chunk.Wg.Done()
SvCallbackStep(i) ==
    /\ i \in DOMAIN svCalls
    /\ LET c == svCalls[i]
           pc == SvCallbackPcs[c.pc]
           V == svEntries[i]
           goto(tmp) == svCalls' = [svCalls EXCEPT ![i] = [pc |-> c.pc + 1, tmp |-> tmp]]
       IN  CASE pc = "readBlocks" ->
                  /\ goto(svOp.numBlocks)
                  /\ UNCHANGED <<svOp, svWg>>
             [] pc = "writeBlocks" ->
                  /\ svOp' = [svOp EXCEPT !.numBlocks = c.tmp + 1]
                  /\ goto(0)
                  /\ UNCHANGED svWg
             [] pc = "readEncoding" ->
                  /\ goto(svOp.encoding)
                  /\ UNCHANGED <<svOp, svWg>>
             [] pc = "writeEncoding" ->
                  /\ svOp' = [svOp EXCEPT !.encoding = c.tmp \o V]
                  /\ goto(0)
                  /\ UNCHANGED svWg
             [] pc = "readRuns" ->
                  /\ goto(svOp.numRuns)
                  /\ UNCHANGED <<svOp, svWg>>
             [] pc = "writeRuns" ->
                  /\ svOp' = [svOp EXCEPT !.numRuns = c.tmp + SvRunsIn(V)]
                  /\ goto(0)
                  /\ UNCHANGED svWg
             [] pc = "done" ->
                  /\ svWg' = svWg - 1
                  /\ svCalls' = [j \in DOMAIN svCalls \ {i} |-> svCalls[j]]
                  /\ UNCHANGED svOp
    /\ UNCHANGED <<svPc, svEntries, svWorkers, svNext, svResult>>
    /\ UNCHANGED svOthers

\* ProcessRange returns (err == nil) once it has handed every entry of the range
\* to the callback; GetSparseVol goes on to wg.Wait().
SvScanned ==
    /\ svPc = "scan"
    /\ svNext > Len(svEntries)
    /\ svWorkers = 1 => DOMAIN svCalls = {}
    /\ svPc' = "wait"
    /\ UNCHANGED <<svEntries, svWorkers, svNext, svCalls, svOp, svWg, svResult>>
    /\ UNCHANGED svOthers

\* wg.Wait() returns; the run count is patched into the header; return.
SvReturn ==
    /\ svPc = "wait"
    /\ svWg = 0
    /\ svOp' = [svOp EXCEPT !.encoding = PutRunCount(svOp.encoding, svOp.numRuns)]
    /\ svResult' = svOp'.encoding
    /\ svPc' = "returned"
    /\ UNCHANGED <<svEntries, svWorkers, svNext, svCalls, svWg>>
    /\ UNCHANGED svOthers

NextSparseVol ==
    \/ SvInvoke
    \/ \E i \in 1..MaxEntries + 1 : SvCallbackStep(i)
    \/ SvScanned
    \/ SvReturn

(***************************************************************************)
(* GetSizeRange                                                            *)
(***************************************************************************)
\* Byte-wise (lexicographic) order of keys, the order of the store.
KeyLess(a, b) ==
    \E i \in 1..(Len(a) + 1) :
        /\ \A j \in 1..(i - 1) : j <= Len(b) /\ a[j] = b[j]
        /\ IF i > Len(a) THEN Len(b) >= i ELSE i <= Len(b) /\ a[i] < b[i]

KeyLeq(a, b) == a = b \/ KeyLess(a, b)

RECURSIVE SortedKeys(_)
SortedKeys(S) ==
    IF S = {} THEN <<>>
    ELSE LET least == CHOOSE k \in S : \A o \in S : KeyLeq(k, o)
         IN  <<least>> \o SortedKeys(S \ {least})

\* store.KeysInRange(ctx, firstKey, lastKey): the keys of the store between the
\* two keys, inclusive, in ascending order.
KeysInRange(index, firstKey, lastKey) ==
    SortedKeys({k \in index : KeyLeq(firstKey, k) /\ KeyLeq(k, lastKey)})

\* voxels.LabelFromLabelSizesKey(key): an error unless the key has the tag and
\* the two 8-byte fields of a label sizes key.
LabelFromKeyErr(key) == Len(key) # 17 \/ key[1] # KeyLabelSizes

LabelFromLabelSizesKey(key) == FromBigEndian8(SubSeq(key, 10, 17))

\* json.Marshal(labels) of a []uint64, as the tokens of the string.
RECURSIVE JsonElements(_)
JsonElements(labels) ==
    IF labels = <<>> THEN <<>>
    ELSE IF Len(labels) = 1 THEN <<ToString(labels[1])>>
    ELSE <<ToString(labels[1]), ",">> \o JsonElements(Tail(labels))

JsonMarshal(labels) == <<"[">> \o JsonElements(labels) \o <<"]">>

\* The keys the size index can hold: entries (count, label), and a key cut short.
SizeIndexKeys ==
    { NewLabelSizesIndex(5, 1), NewLabelSizesIndex(3, 2), NewLabelSizesIndex(9, 3),
      NewLabelSizesIndex(5, 3), NewLabelSizesIndex(300, 2),
      <<KeyLabelSizes>> \o BigEndian8(9) }

SizeRangeInit ==
    /\ qPc = "ready"
    /\ qIndex \in SUBSET SizeIndexKeys
    /\ qCall = [minSize |-> 0, maxSize |-> 0, storeOk |-> TRUE, scanOk |-> TRUE]
    /\ qResult = [json |-> <<>>, err |-> FALSE]

\* No size index is queried.
SizeRangeIdle ==
    /\ qPc = "idle"
    /\ qIndex = {}
    /\ qCall = [minSize |-> 0, maxSize |-> 0, storeOk |-> TRUE, scanOk |-> TRUE]
    /\ qResult = [json |-> <<>>, err |-> FALSE]

SizeRangeUpperBoundAsGiven(maxSize) == BigEndian8(maxSize)

\* if maxSize != 0 { upperBound = maxSize } else { upperBound = math.MaxUint64 }
SizeRangeUpperBound(maxSize) ==
    IF maxSize # 0 THEN BigEndian8(maxSize) ELSE MaxUint64Bytes

RECURSIVE DecodeLabelsSkipping(_)
DecodeLabelsSkipping(keys) ==
    IF keys = <<>> THEN [labels |-> <<>>, err |-> FALSE]
    ELSE LET rest == DecodeLabelsSkipping(Tail(keys))
         IN  IF LabelFromKeyErr(Head(keys)) THEN rest
             ELSE [labels |-> <<LabelFromLabelSizesKey(Head(keys))>> \o rest.labels,
                   err |-> FALSE]

\* The loop over keys: the labels decoded so far, or the first decode error.
RECURSIVE DecodeLabels(_)
DecodeLabels(keys) ==
    IF keys = <<>> THEN [labels |-> <<>>, err |-> FALSE]
    ELSE IF LabelFromKeyErr(Head(keys)) THEN [labels |-> <<>>, err |-> TRUE]
    ELSE LET rest == DecodeLabels(Tail(keys))
         IN  IF rest.err THEN rest
             ELSE [labels |-> <<LabelFromLabelSizesKey(Head(keys))>> \o rest.labels,
                   err |-> FALSE]

\* GetSizeRange(data, versionID, minSize, maxSize): storeOk is whether
\* storage.SmallDataStore() succeeds, scanOk whether store.KeysInRange does.
GetSizeRange(minSize, maxSize, storeOk, scanOk) ==
    /\ qPc = "ready"
    /\ qCall' = [minSize |-> minSize, maxSize |-> maxSize,
                 storeOk |-> storeOk, scanOk |-> scanOk]
    /\ LET firstKey == LabelSizesKey(BigEndian8(minSize), BigEndian8(0))
           lastKey == LabelSizesKey(SizeRangeUpperBound(maxSize), MaxUint64Bytes)
           keys == KeysInRange(qIndex, firstKey, lastKey)
           decoded == DecodeLabels(keys)
       IN  qResult' =
             IF ~storeOk \/ ~scanOk \/ decoded.err
               THEN [json |-> <<"{}">>, err |-> TRUE]
               ELSE [json |-> JsonMarshal(decoded.labels), err |-> FALSE]
    /\ qPc' = "returned"
    /\ UNCHANGED qIndex
    /\ UNCHANGED qOthers

NextSizeRange ==
    \E minSize \in {0, 4, 6, 10, 301}, maxSize \in {0, 4, 10, 300},
       storeOk \in BOOLEAN, scanOk \in BOOLEAN :
        GetSizeRange(minSize, maxSize, storeOk, scanOk)

(***************************************************************************)
(* GetSurface                                                              *)
(***************************************************************************)
\* A stored value that is no serialization dvid.DeserializeData accepts.
CorruptBlob == [present |-> TRUE, compression |-> "unknown", surfaceOf |-> <<>>]

\* dvid.DeserializeData(data, uncompress) returns an error
DeserializeErr(data) == data.compression # "gzip"

\* dvid.DeserializeData(data, false): the payload of the serialization, left
\* compressed.
DeserializeData(data) == [gzipped |-> data.surfaceOf]

\* a nil []byte, and []byte{}
NilBytes == [nil |-> TRUE]
EmptyBytes == [nil |-> FALSE, gzipped |-> <<>>]

\* The blobs the store can hold for a label: none, the surface of one run of
\* the label, of two runs, or a corrupt value.
StoredBlobs ==
    { NoBlob, CorruptBlob,
      SurfaceBlob([label |-> 0, runs |-> <<Run(1, 1)>>]),
      SurfaceBlob([label |-> 0, runs |-> <<Run(1, 2), Run(2, 1)>>]) }

GetSurfaceInit ==
    /\ gsPc = "ready"
    /\ gsStore \in [Labels -> StoredBlobs]
    /\ gsCall = [label |-> 0, storeOk |-> TRUE, getOk |-> TRUE]
    /\ gsResult = [bytes |-> NilBytes, found |-> FALSE, err |-> FALSE]

\* GetSurface is not called.
GetSurfaceIdle ==
    /\ gsPc = "idle"
    /\ gsStore = [l \in Labels |-> NoBlob]
    /\ gsCall = [label |-> 0, storeOk |-> TRUE, getOk |-> TRUE]
    /\ gsResult = [bytes |-> NilBytes, found |-> FALSE, err |-> FALSE]

GetSurfaceNotFoundAsError == [bytes |-> NilBytes, found |-> FALSE, err |-> TRUE]

\* if data == nil { return []byte{}, false, nil }
GetSurfaceNotFound == [bytes |-> EmptyBytes, found |-> FALSE, err |-> FALSE]

\* return nil, false, fmt.Errorf(...)
GetSurfaceError == [bytes |-> NilBytes, found |-> FALSE, err |-> TRUE]

\* GetSurface(ctx, label): storeOk is whether storage.BigDataStore() succeeds,
\* getOk whether bigdata.Get does.
GetSurface(label, storeOk, getOk) ==
    /\ gsPc = "ready"
    /\ gsCall' = [label |-> label, storeOk |-> storeOk, getOk |-> getOk]
    /\ LET data == gsStore[label]
       IN  gsResult' =
             IF ~storeOk \/ ~getOk THEN GetSurfaceError
             ELSE IF data = NoBlob THEN GetSurfaceNotFound
             ELSE IF DeserializeErr(data) THEN GetSurfaceError
             ELSE [bytes |-> [nil |-> FALSE] @@ DeserializeData(data),
                   found |-> TRUE, err |-> FALSE]
    /\ gsPc' = "returned"
    /\ UNCHANGED gsStore
    /\ UNCHANGED gsOthers

NextGetSurface ==
    \E label \in Labels, storeOk \in BOOLEAN, getOk \in BOOLEAN :
        GetSurface(label, storeOk, getOk)

(***************************************************************************)
(* StoreKeyLabelSpatialMap                                                 *)
(***************************************************************************)
\* The tag byte of the label spatial map index.
KeyLabelSpatialMap == 4

\* dvid.IndexZYXSize: three int32 coordinates.
IndexZYXSize == 12

\* The block coordinates of the calls: IndexZYXSize bytes each.
ZyxValues ==
    { [i \in 1..IndexZYXSize |-> IF i % 4 = 0 THEN i \div 4 ELSE 0],
      [i \in 1..IndexZYXSize |-> IF i % 4 = 0 THEN 7 ELSE 0] }

\* rles.MarshalBinary() returns an error
MarshalErr(rles) == ~rles.ok

\* rles.MarshalBinary(): the records of the runs, one after the other.
RECURSIVE MarshalBinary(_)
MarshalBinary(runs) ==
    IF runs = <<>> THEN <<>> ELSE RunBytes(Head(runs)) \o MarshalBinary(Tail(runs))

\* The maps labelRLEs can be: any set of labels, each with some RLEs value.
LabelRLEsMaps ==
    UNION { [D -> ChunkValues(1) \cup {[ok |-> TRUE, runs |-> <<Run(1, 1), Run(2, 2)>>]}]
            : D \in SUBSET Labels }

SpatialMapKeyLabelUnset(b, zyxBytes) ==
    <<KeyLabelSpatialMap>> \o BigEndian8(0) \o zyxBytes

\* bsIndex[0] = byte(voxels.KeyLabelSpatialMap); copy(bsIndex[9:...], zyxBytes);
\* binary.BigEndian.PutUint64(bsIndex[1:9], b); key := dvid.IndexBytes(bsIndex)
SpatialMapKey(b, zyxBytes) ==
    <<KeyLabelSpatialMap>> \o BigEndian8(b) \o SubSeq(zyxBytes, 1, IndexZYXSize)

SpatialMapInit ==
    /\ smPc = "loop"
    /\ smLabelRLEs \in LabelRLEsMaps
    /\ smZyx \in ZyxValues
    /\ smTodo = DOMAIN smLabelRLEs
    /\ smBatch = <<>>
    /\ smMarshalErr = FALSE
    /\ smCommits = 0
    /\ smCommitted = <<>>
    /\ smStore = {}

\* StoreKeyLabelSpatialMap is not called.
SpatialMapIdle ==
    /\ smPc = "idle"
    /\ smLabelRLEs = <<>>
    /\ smZyx = <<>>
    /\ smTodo = {}
    /\ smBatch = <<>>
    /\ smMarshalErr = FALSE
    /\ smCommits = 0
    /\ smCommitted = <<>>
    /\ smStore = {}

\* The deferred function: batch.Commit(), its error only logged. commitOk is
\* whether the Commit succeeds.
SpatialMapDeferred(batch, commitOk) ==
    /\ smCommits' = smCommits + 1
    /\ smCommitted' = batch
    /\ smStore' = IF commitOk THEN {batch[i] : i \in 1..Len(batch)} ELSE smStore
    /\ smPc' = "returned"

\* One iteration of `for b, rles := range labelRLEs`, in the order the map
\* yields its labels; the return on a marshalling error and the return after
\* the last label run the deferred function.
SpatialMapPut(b) ==
    /\ smPc = "loop"
    /\ b \in smTodo
    /\ smTodo' = smTodo \ {b}
    /\ LET rles == smLabelRLEs[b]
           key == SpatialMapKey(b, smZyx)
       IN  IF MarshalErr(rles)
             THEN /\ smMarshalErr' = TRUE
                  /\ UNCHANGED smBatch
                  /\ \E commitOk \in BOOLEAN : SpatialMapDeferred(smBatch, commitOk)
             ELSE LET batch == Append(smBatch, [key |-> key, value |-> MarshalBinary(rles.runs)])
                  IN  /\ smBatch' = batch
                      /\ UNCHANGED smMarshalErr
                      /\ IF smTodo = {b}
                           THEN \E commitOk \in BOOLEAN : SpatialMapDeferred(batch, commitOk)
                           ELSE UNCHANGED <<smPc, smCommits, smCommitted, smStore>>
    /\ UNCHANGED <<smLabelRLEs, smZyx>>
    /\ UNCHANGED smOthers

\* The call with an empty map: the loop body never runs.
SpatialMapEmpty ==
    /\ smPc = "loop"
    /\ smLabelRLEs = <<>>
    /\ \E commitOk \in BOOLEAN : SpatialMapDeferred(smBatch, commitOk)
    /\ UNCHANGED <<smLabelRLEs, smZyx, smTodo, smBatch, smMarshalErr>>
    /\ UNCHANGED smOthers

NextSpatialMap ==
    \/ \E b \in Labels : SpatialMapPut(b)
    \/ SpatialMapEmpty

(***************************************************************************)
(* A producer and a consumer of one label stream. The producer sends the   *)
(* chunks of a finite stream and then nil on the channel, each send        *)
(* blocking while the channel is full; the consumer receives from the      *)
(* channel while it runs its loop.                                         *)
(***************************************************************************)
\* The nil sentinel.
Nil == [nil |-> TRUE]

PipelineInit ==
    /\ pdPc = "sending"
    /\ pdLen \in 0..MaxChunks
    /\ pdSent = 0
    /\ ch = <<>>

\* No producer runs.
PipelineIdle ==
    /\ pdPc = "idle"
    /\ pdLen = 0
    /\ pdSent = 0
    /\ ch = <<>>

\* ch <- chunk
PdSend(chunk) ==
    /\ pdPc = "sending"
    /\ pdSent < pdLen
    /\ Len(ch) < ChanCap
    /\ ch' = Append(ch, chunk)
    /\ pdSent' = pdSent + 1
    /\ UNCHANGED <<pdPc, pdLen>>
    /\ UNCHANGED pdOthers

\* ch <- nil
PdSendNil ==
    /\ pdPc = "sending"
    /\ pdSent = pdLen
    /\ Len(ch) < ChanCap
    /\ ch' = Append(ch, Nil)
    /\ pdPc' = "done"
    /\ UNCHANGED <<pdLen, pdSent>>
    /\ UNCHANGED pdOthers

\* chunk := <-ch
Received ==
    /\ ch # <<>>
    /\ ch' = Tail(ch)
    /\ UNCHANGED <<pdPc, pdLen, pdSent>>

NextProducer ==
    \/ \E chunk \in Chunks(pdSent + 1) : PdSend(chunk)
    \/ PdSendNil

NextPipelineSurface ==
    \/ Received /\ Head(ch) = Nil /\ SurfaceSentinel
    \/ Received /\ Head(ch) # Nil /\ SurfaceChunk(Head(ch))
    \/ SurfaceDeferStep /\ UNCHANGED pdVars

NextPipelineSizes ==
    \/ SizesStart /\ UNCHANGED pdVars
    \/ Received /\ Head(ch) = Nil /\ SizesSentinel
    \/ Received /\ Head(ch) # Nil /\ SizesChunk(Head(ch))

NextPipeline == NextProducer \/ NextPipelineSurface \/ NextPipelineSizes

\* ComputeSurface is not running.
SurfaceIdle ==
    /\ sfPc = "idle"
    /\ sfDefer = 1
    /\ sfCurVol = ZeroVol
    /\ sfCurLabel = 0
    /\ sfNotFirst = FALSE
    /\ surfaceStore = [l \in Labels |-> NoBlob]
    /\ sfWg = 0
    /\ handlerToken = 0
    /\ sfReceived = <<>>
    /\ sfSentinel = FALSE
    /\ sfCalls = <<>>
    /\ sfSaveErr = FALSE
    /\ sfDecodeErr = FALSE
    /\ sfDone = 0
    /\ sfSends = 0

InitSurface == SurfaceInit /\ SizesIdle /\ SparseVolIdle /\ SizeRangeIdle /\ GetSurfaceIdle /\ SpatialMapIdle /\ PipelineIdle

InitSizes == SizesInit /\ SurfaceIdle /\ SparseVolIdle /\ SizeRangeIdle /\ GetSurfaceIdle /\ SpatialMapIdle /\ PipelineIdle

\* ProcessRange invokes the callback inline, entry after entry.
InitSparseVol == SparseVolInit(1) /\ SurfaceIdle /\ SizesIdle /\ SizeRangeIdle /\ GetSurfaceIdle /\ SpatialMapIdle /\ PipelineIdle

SpecSparseVol == InitSparseVol /\ [][NextSparseVol]_vars

\* ProcessRange invokes the callback from concurrent workers.
InitSparseVolConcurrent ==
    SparseVolInit(ConcurrentWorkers) /\ SurfaceIdle /\ SizesIdle /\ SizeRangeIdle /\ GetSurfaceIdle /\ SpatialMapIdle /\ PipelineIdle

SpecSparseVolConcurrent == InitSparseVolConcurrent /\ [][NextSparseVol]_vars

InitSizeRange == SizeRangeInit /\ SurfaceIdle /\ SizesIdle /\ SparseVolIdle /\ GetSurfaceIdle /\ SpatialMapIdle /\ PipelineIdle

SpecSizeRange == InitSizeRange /\ [][NextSizeRange]_vars

InitGetSurface ==
    GetSurfaceInit /\ SurfaceIdle /\ SizesIdle /\ SparseVolIdle /\ SizeRangeIdle /\ SpatialMapIdle /\ PipelineIdle

SpecGetSurface == InitGetSurface /\ [][NextGetSurface]_vars

InitSpatialMap ==
    /\ SpatialMapInit /\ SurfaceIdle /\ SizesIdle /\ SparseVolIdle /\ SizeRangeIdle /\ PipelineIdle
    /\ GetSurfaceIdle

SpecSpatialMap == InitSpatialMap /\ [][NextSpatialMap]_vars

\* One producer with ComputeSurface, or with ComputeSizes on a store that batches.
InitPipeline ==
    /\ PipelineInit
    /\ \/ SurfaceInit /\ SizesIdle
       \/ SizesInit /\ szBatcherOk /\ szPlan = "free" /\ SurfaceIdle
    /\ SparseVolIdle /\ SizeRangeIdle /\ GetSurfaceIdle /\ SpatialMapIdle

\* A goroutine that can take a step eventually takes one.
SpecPipelineFair ==
    /\ InitPipeline
    /\ [][NextPipeline]_vars
    /\ WF_vars(NextProducer)
    /\ WF_vars(NextPipelineSurface)
    /\ WF_vars(NextPipelineSizes)

SpecSizes == InitSizes /\ [][NextSizes]_vars

\* Either consumer of a label stream, each fed its own stream.
InitConsumers == InitSurface \/ InitSizes

NextConsumers == NextSurface \/ NextSizes

SpecConsumers == InitConsumers /\ [][NextConsumers]_vars

SpecSurface == InitSurface /\ [][NextSurface]_vars

\* The Go scheduler runs the goroutine whenever it can take a step.
SpecSurfaceFair == SpecSurface /\ WF_vars(NextSurface)

(***************************************************************************)
(* The grouping a label-ordered stream defines: a group is a maximal run   *)
(* of chunks with the same non-zero label, every label-0 chunk is a group  *)
(* of its own. GroupsOf gives, in stream order, each group's label and the *)
(* runs of its chunks.                                                     *)
(***************************************************************************)
SameGroup(a, b) == a.label = b.label /\ a.label # 0

RECURSIVE GroupsOf(_)
GroupsOf(s) ==
    IF s = <<>> THEN <<>>
    ELSE LET n == Len(s)
             before == GroupsOf(SubSeq(s, 1, n - 1))
         IN  IF n > 1 /\ SameGroup(s[n - 1], s[n])
               THEN [before EXCEPT ![Len(before)].runs = @ \o s[n].V.runs]
               ELSE Append(before, [label |-> s[n].label, runs |-> s[n].V.runs])

\* The Size Index Entries of a sequence of groups, as a bag of keys.
RECURSIVE SizeEntries(_)
SizeEntries(groups) ==
    IF groups = <<>> THEN EmptyBag
    ELSE SetToBag({NewLabelSizesIndex(SumLen(Head(groups).runs), Head(groups).label)})
           (+) SizeEntries(Tail(groups))

LabelsOf(s) == [i \in 1..Len(s) |-> s[i].label]

\* The history holds the whole stream ComputeSizes received.
SizesHistoryComplete == szRecvCount = Len(szReceived)

(***************************************************************************)
(* C1: ComputeSurface grouping. After the nil sentinel of a stream in      *)
(* which no chunk failed to decode and no save failed, the volumes passed  *)
(* to computeAndSaveSurface are, in order, exactly the groups of the       *)
(* stream, each with its label and its own chunks' runs (none for an empty *)
(* stream); while the stream runs, the calls made so far followed by the   *)
(* volume being accumulated are the groups of the chunks received so far.  *)
(***************************************************************************)
C1_SurfaceGrouping ==
    /\ (sfSentinel /\ ~sfSaveErr /\ ~sfDecodeErr) => sfCalls = GroupsOf(sfReceived)
    /\ (sfPc = "loop" /\ sfReceived # <<>>)
          => sfCalls \o <<sfCurVol>> = GroupsOf(sfReceived)

C1_Witness ==
    /\ sfSentinel /\ ~sfSaveErr /\ ~sfDecodeErr
    /\ LabelsOf(sfReceived) = <<1, 1, 2, 2>>
    /\ Len(sfCalls) = 2
    /\ sfCalls[1] = [label |-> 1, runs |-> sfReceived[1].V.runs \o sfReceived[2].V.runs]
    /\ sfCalls[2] = [label |-> 2, runs |-> sfReceived[3].V.runs \o sfReceived[4].V.runs]

(***************************************************************************)
(* C2: ComputeSizes on an empty stream. When the first value received is   *)
(* the nil sentinel, no Size Index Entry is put into the batch and none is *)
(* committed to the store.                                                 *)
(***************************************************************************)
C2_EmptyStreamPutsNothing ==
    (szSentinel /\ szRecvCount = 0) => (szPutBag = EmptyBag /\ sizeIndex = {})

(***************************************************************************)
(* C3: ComputeSizes commit threshold, as claimed: for a stream of N        *)
(* distinct contiguous labels and the sentinel, exactly one Commit is made *)
(* before the sentinel when N = 10,000 and none when N = 9,999, and one    *)
(* further Commit at stream end.                                           *)
(***************************************************************************)
C3_ThresholdAsClaimed ==
    (szPlan = "distinct" /\ szSentinel) =>
        /\ szRecvCount = BATCH_SIZE => szCommitsMid = 1
        /\ szRecvCount = BATCH_SIZE - 1 => szCommitsMid = 0
        /\ szCommitsEnd = 1

(***************************************************************************)
(* C3, amended: the entry of the last label is put on the sentinel, so N   *)
(* labels make N - 1 puts before the sentinel: exactly one Commit is made  *)
(* before the sentinel when N = 10,001 and none when N = 10,000 or 9,999,  *)
(* and one further Commit at stream end.                                   *)
(***************************************************************************)
C3_Threshold ==
    (szPlan = "distinct" /\ szSentinel) =>
        /\ szRecvCount = BATCH_SIZE + 1 => szCommitsMid = 1
        /\ szRecvCount = BATCH_SIZE => szCommitsMid = 0
        /\ szRecvCount = BATCH_SIZE - 1 => szCommitsMid = 0
        /\ szCommitsEnd = 1

C3_Witness ==
    /\ szPlan = "distinct" /\ szSentinel
    /\ szRecvCount = BATCH_SIZE + 1
    /\ szCommitsMid = 1
    /\ szCommitsEnd = 1
    /\ BagCardinality(szPutBag) = BATCH_SIZE + 1

(***************************************************************************)
(* C4: ComputeSizes per-label size. After the sentinel of a non-empty      *)
(* stream of non-zero labels, the entries put are exactly one (count,      *)
(* label) per group, count being the sum of the Stats() voxel counts of    *)
(* the group's chunks; when the commit succeeds they are the store's size  *)
(* index.                                                                  *)
(***************************************************************************)
C4_PerLabelSize ==
    (/\ szSentinel
     /\ SizesHistoryComplete
     /\ szReceived # <<>>
     /\ \A i \in 1..Len(szReceived) : szReceived[i].label # 0)
    => /\ szPutBag = SizeEntries(GroupsOf(szReceived))
       /\ ~szCommitErrEnd => sizeIndex = BagToSet(SizeEntries(GroupsOf(szReceived)))

C4_Witness ==
    /\ szSentinel /\ SizesHistoryComplete /\ ~szCommitErrEnd
    /\ LabelsOf(szReceived) = <<1, 1, 2, 2>>
    /\ Stats(szReceived[1].V.runs) = 1
    /\ Stats(szReceived[2].V.runs) = 2
    /\ sizeIndex = {NewLabelSizesIndex(3, 1),
                    NewLabelSizesIndex(SumLen(szReceived[3].V.runs \o szReceived[4].V.runs), 2)}

(***************************************************************************)
(* C6: ComputeSurface completion signalling. At every moment the wait      *)
(* group was signalled at most once and no later than the permit was       *)
(* released; once ComputeSurface has returned, by whichever path, it has   *)
(* called wg.Done() exactly once and sent exactly one token; and it does   *)
(* return, so that a caller waiting on the wait group is released.         *)
(***************************************************************************)
C6_SignalledOnce ==
    /\ sfSends <= sfDone
    /\ sfDone <= 1
    /\ sfPc = "returned" => (sfDone = 1 /\ sfSends = 1 /\ sfWg = 0)

C6_SurfaceCompletion == []C6_SignalledOnce /\ <>(sfPc = "returned" /\ sfWg = 0)

C6_Witness ==
    /\ sfPc = "returned"
    /\ sfDecodeErr
    /\ sfDone = 1 /\ sfSends = 1 /\ sfWg = 0

(***************************************************************************)
(* C7: ComputeSizes treats label 0 as a hard grouping boundary. After the  *)
(* sentinel of a non-empty stream the entries put are one per group, each  *)
(* label-0 chunk being a group of its own with its own voxel count.        *)
(***************************************************************************)
C7_ZeroLabelBoundary ==
    (szSentinel /\ SizesHistoryComplete /\ szReceived # <<>>)
    => szPutBag = SizeEntries(GroupsOf(szReceived))

(***************************************************************************)
(* C8: ComputeSizes survives a failed periodic flush. After a threshold-   *)
(* triggered Commit failed, ComputeSizes is still consuming chunks, or has *)
(* received the sentinel (and so emitted and committed the last entry).    *)
(***************************************************************************)
C8_SurvivesFailedFlush ==
    szCommitErrMid => (szPc = "loop" \/ szSentinel)

(***************************************************************************)
(* What GetSizeRange is to return, from the entries (count, label) of the  *)
(* index as numbers.                                                       *)
(***************************************************************************)
EntryOf(key) ==
    [count |-> FromBigEndian8(SubSeq(key, 2, 9)),
     label |-> FromBigEndian8(SubSeq(key, 10, 17))]

EntryBefore(a, b) ==
    a.count < b.count \/ (a.count = b.count /\ a.label < b.label)

RECURSIVE LabelsAscending(_)
LabelsAscending(E) ==
    IF E = {} THEN <<>>
    ELSE LET least == CHOOSE e \in E : \A o \in E \ {e} : EntryBefore(e, o)
         IN  <<least.label>> \o LabelsAscending(E \ {least})

EntriesInRange(index, minSize, maxSize) ==
    { e \in {EntryOf(k) : k \in index} :
        minSize <= e.count /\ (maxSize = 0 \/ e.count <= maxSize) }

WellFormedIndex == \A k \in qIndex : ~LabelFromKeyErr(k)

(***************************************************************************)
(* C5: GetSizeRange result. On an index of entries (count, label), with    *)
(* the store available and the range read succeeding, GetSizeRange returns *)
(* a nil error and the JSON list of exactly the labels of the entries with *)
(* minSize <= count <= maxSize (maxSize = 0: no upper bound), ascending by *)
(* (count, label); the empty list when none matches.                       *)
(***************************************************************************)
C5_SizeRangeResult ==
    (qPc = "returned" /\ WellFormedIndex /\ qCall.storeOk /\ qCall.scanOk) =>
        /\ ~qResult.err
        /\ qResult.json =
             JsonMarshal(LabelsAscending(EntriesInRange(qIndex, qCall.minSize, qCall.maxSize)))

C5_Witness ==
    /\ qPc = "returned"
    /\ qIndex = {NewLabelSizesIndex(5, 1), NewLabelSizesIndex(3, 2), NewLabelSizesIndex(9, 3)}
    /\ qCall = [minSize |-> 4, maxSize |-> 10, storeOk |-> TRUE, scanOk |-> TRUE]
    /\ qResult = [json |-> <<"[", "1", ",", "3", "]">>, err |-> FALSE]

(***************************************************************************)
(* The sparse volume GetSparseVol is to return for the scanned entries.    *)
(***************************************************************************)
RECURSIVE Concat(_)
Concat(values) == IF values = <<>> THEN <<>> ELSE Head(values) \o Concat(Tail(values))

RECURSIVE TotalRuns(_)
TotalRuns(values) ==
    IF values = <<>> THEN 0 ELSE (Len(Head(values)) \div 16) + TotalRuns(Tail(values))

RunCountField(blob) == FromLittleEndian4(SubSeq(blob, 9, 12))

HeaderFixedFields(blob) ==
    /\ Len(blob) >= 12
    /\ blob[2] = 3
    /\ blob[3] = 0
    /\ blob[4] = 0
    /\ FromLittleEndian4(SubSeq(blob, 5, 8)) = 0

(***************************************************************************)
(* C9: GetSparseVol output ordering under concurrent chunk callbacks. The  *)
(* returned encoding is the header followed by the bytes of the entries in *)
(* scan order, each contiguous and none lost, and numBlocks and numRuns    *)
(* are the true totals.                                                    *)
(***************************************************************************)
C9_ScanOrderUnderConcurrency ==
    svPc = "returned" =>
        /\ SubSeq(svResult, 13, Len(svResult)) = Concat(svEntries)
        /\ svOp.numBlocks = Len(svEntries)
        /\ svOp.numRuns = TotalRuns(svEntries)

(***************************************************************************)
(* C10: GetSparseVol header consistency, as claimed: the returned blob has *)
(* a 12-byte header with axis count 3, run axis 0, reserved byte 0 and     *)
(* voxel count 0, and its run-count field is (length of blob - 12) / 16,   *)
(* for any scanned entries.                                                *)
(***************************************************************************)
C10_HeaderAsClaimed ==
    svPc = "returned" =>
        /\ HeaderFixedFields(svResult)
        /\ RunCountField(svResult) = (Len(svResult) - 12) \div 16

(***************************************************************************)
(* C10, amended: the header fields are as claimed, and the run-count field *)
(* is the sum over the scanned entries of (value length / 16) rounded      *)
(* down, which is (length of blob - 12) / 16 when every entry's value      *)
(* length is a multiple of 16.                                             *)
(***************************************************************************)
C10_HeaderConsistency ==
    svPc = "returned" =>
        /\ HeaderFixedFields(svResult)
        /\ RunCountField(svResult) = TotalRuns(svEntries)
        /\ (\A i \in 1..Len(svEntries) : Len(svEntries[i]) % 16 = 0)
              => RunCountField(svResult) = (Len(svResult) - 12) \div 16

C10_Witness ==
    /\ svPc = "returned"
    /\ Len(svEntries) = 2
    /\ Len(svEntries[1]) = 24
    /\ Len(svEntries[2]) = 24
    /\ RunCountField(svResult) = 2
    /\ Len(svResult) = 12 + 48

(***************************************************************************)
(* C11: GetSurface not-found. For a label with no stored blob (the store's *)
(* Get succeeds and returns nil) GetSurface returns an empty byte slice,   *)
(* found = false and a nil error; it returns found = true only with the    *)
(* deserialized bytes of a value present in the store, and a non-nil error *)
(* only when the store is unavailable, the Get fails or deserialization    *)
(* fails.                                                                  *)
(***************************************************************************)
C11_SurfaceNotFound ==
    gsPc = "returned" =>
        LET data == gsStore[gsCall.label]
        IN  /\ (gsCall.storeOk /\ gsCall.getOk /\ ~data.present)
                  => gsResult = [bytes |-> EmptyBytes, found |-> FALSE, err |-> FALSE]
            /\ gsResult.found
                  => /\ data.present
                     /\ ~gsResult.err
                     /\ gsResult.bytes = [nil |-> FALSE, gzipped |-> data.surfaceOf]
            /\ gsResult.err
                  => (~gsCall.storeOk \/ ~gsCall.getOk \/ (data.present /\ DeserializeErr(data)))

C11_Witness ==
    /\ gsPc = "returned"
    /\ gsCall.storeOk /\ gsCall.getOk
    /\ gsStore[gsCall.label] = NoBlob
    /\ \E l \in Labels : gsStore[l].present
    /\ gsResult = [bytes |-> EmptyBytes, found |-> FALSE, err |-> FALSE]

(***************************************************************************)
(* The contiguous fragments of a stream: its maximal runs of consecutive   *)
(* chunks of the same label, each with the runs of its own chunks.         *)
(***************************************************************************)
RECURSIVE FragmentsOf(_)
FragmentsOf(s) ==
    IF s = <<>> THEN <<>>
    ELSE LET n == Len(s)
             before == FragmentsOf(SubSeq(s, 1, n - 1))
         IN  IF n > 1 /\ s[n - 1].label = s[n].label
               THEN [before EXCEPT ![Len(before)].runs = @ \o s[n].V.runs]
               ELSE Append(before, [label |-> s[n].label, runs |-> s[n].V.runs])

\* The labels that have chunks in more than one fragment of the stream.
Scattered(s) ==
    { l \in Labels : \E i, j, k \in 1..Len(s) :
        i < j /\ j < k /\ s[i].label = l /\ s[k].label = l /\ s[j].label # l }

\* The index in calls of the last call made for label l (0 if none).
LastCallFor(calls, l) ==
    LET idx == { i \in 1..Len(calls) : calls[i].label = l }
    IN  IF idx = {} THEN 0 ELSE CHOOSE i \in idx : \A j \in idx : j <= i

(***************************************************************************)
(* C12: a contiguity violation is not defended against. When a label's     *)
(* chunks are scattered over several fragments of the stream, ComputeSurface*)
(* calls computeAndSaveSurface once per fragment with that fragment's runs *)
(* only, the blob stored for the label being that of its last fragment, and*)
(* ComputeSizes puts one entry per fragment with the fragment's own voxel  *)
(* count; neither merges fragments, and neither fails because of the       *)
(* scattering (a decode error is always that of an undecodable chunk).     *)
(***************************************************************************)
C12_FragmentsFinalizedSeparately ==
    /\ (sfSentinel /\ ~sfSaveErr /\ ~sfDecodeErr /\ Scattered(sfReceived) # {})
          => /\ sfCalls = GroupsOf(sfReceived)
             /\ \A l \in Scattered(sfReceived) \ {0} :
                  /\ Cardinality({ i \in 1..Len(sfCalls) : sfCalls[i].label = l }) >= 2
                  /\ surfaceStore[l] = SurfaceBlob(sfCalls[LastCallFor(sfCalls, l)])
    /\ sfDecodeErr => ~sfReceived[Len(sfReceived)].V.ok
    /\ (szSentinel /\ SizesHistoryComplete /\ Scattered(szReceived) # {})
          => szPutBag = SizeEntries(FragmentsOf(szReceived))
    /\ szDecodeErr => (SizesHistoryComplete => ~szReceived[Len(szReceived)].V.ok)

C12_Witness ==
    /\ sfSentinel /\ ~sfSaveErr /\ ~sfDecodeErr
    /\ LabelsOf(sfReceived) = <<1, 2, 1>>
    /\ Len(sfCalls) = 3
    /\ sfCalls[1] = [label |-> 1, runs |-> sfReceived[1].V.runs]
    /\ sfCalls[3] = [label |-> 1, runs |-> sfReceived[3].V.runs]
    /\ surfaceStore[1] = SurfaceBlob([label |-> 1, runs |-> sfReceived[3].V.runs])
    /\ sfReceived[1].V.runs # sfReceived[3].V.runs

\* The blob the store holds for label l after the calls made, all saved.
BlobAfter(calls, l) ==
    IF LastCallFor(calls, l) = 0 THEN NoBlob
    ELSE SurfaceBlob(calls[LastCallFor(calls, l)])

Front(s) == SubSeq(s, 1, Len(s) - 1)

(***************************************************************************)
(* C13: ComputeSurface aborts on error. Once AddRLEs failed for a chunk or *)
(* computeAndSaveSurface failed for a group, no further chunk (nor the     *)
(* sentinel) is received and no further computeAndSaveSurface call is made;*)
(* after a decode error the calls made are those of the groups before the  *)
(* one being accumulated, which is never finalized, and the blobs stored   *)
(* for those earlier groups stay in the store unchanged; after a failed    *)
(* save the blobs of the calls before the failed one stay as well.         *)
(***************************************************************************)
C13_AbortedState ==
    /\ (sfSaveErr \/ sfDecodeErr) => sfPc # "loop"
    /\ sfDecodeErr
          => /\ ~sfSentinel /\ ~sfSaveErr
             /\ sfCalls = Front(GroupsOf(sfReceived))
             /\ \A l \in Labels : surfaceStore[l] = BlobAfter(sfCalls, l)
    /\ sfSaveErr
          => \A l \in Labels : surfaceStore[l] = BlobAfter(Front(sfCalls), l)

C13_NothingAfterError ==
    (sfSaveErr \/ sfDecodeErr)
        => UNCHANGED <<sfReceived, sfSentinel, sfCalls, surfaceStore, sfCurVol>>

C13_SurfaceAbortOnError == []C13_AbortedState /\ [][C13_NothingAfterError]_vars

C13_Witness ==
    /\ sfPc = "returned"
    /\ sfDecodeErr
    /\ LabelsOf(sfReceived) = <<1, 2, 2>>
    /\ sfCalls = <<[label |-> 1, runs |-> sfReceived[1].V.runs]>>
    /\ sfCurVol = [label |-> 2, runs |-> sfReceived[2].V.runs]
    /\ surfaceStore[1] = SurfaceBlob(sfCalls[1])
    /\ surfaceStore[2] = NoBlob

(***************************************************************************)
(* C14: ComputeSizes completion signalling. Once ComputeSizes has returned,*)
(* by whichever path, it has called wg.Done() exactly once and the wait    *)
(* group's counter is back to zero.                                        *)
(***************************************************************************)
C14_SizesSignalledOnReturn ==
    szPc = "returned" => (szDone = 1 /\ szWg = 0)

\* The keys the range read of the call returned.
KeysRead ==
    KeysInRange(qIndex,
                LabelSizesKey(BigEndian8(qCall.minSize), BigEndian8(0)),
                LabelSizesKey(IF qCall.maxSize # 0 THEN BigEndian8(qCall.maxSize)
                                                   ELSE MaxUint64Bytes,
                              MaxUint64Bytes))

(***************************************************************************)
(* C15: GetSizeRange on a corrupt index. If any key returned by the range  *)
(* read cannot be decoded to a label, or the store is unavailable, or the  *)
(* range read fails, GetSizeRange returns the placeholder "{}" with a      *)
(* non-nil error, never a label list.                                      *)
(***************************************************************************)
C15_CorruptIndexIsAnError ==
    (/\ qPc = "returned"
     /\ \/ ~qCall.storeOk
        \/ ~qCall.scanOk
        \/ \E i \in 1..Len(KeysRead) : LabelFromKeyErr(KeysRead[i]))
    => qResult = [json |-> <<"{}">>, err |-> TRUE]

C15_Witness ==
    /\ qPc = "returned"
    /\ qCall = [minSize |-> 4, maxSize |-> 10, storeOk |-> TRUE, scanOk |-> TRUE]
    /\ qIndex = {NewLabelSizesIndex(5, 1), <<KeyLabelSizes>> \o BigEndian8(9),
                 NewLabelSizesIndex(9, 3)}
    /\ Len(KeysRead) = 3
    /\ qResult = [json |-> <<"{}">>, err |-> TRUE]

(***************************************************************************)
(* C16: size batch lifecycle. While ComputeSizes runs its loop the batch   *)
(* it holds is open (Commit was not called on it), and a batch on which    *)
(* Commit was called is held only after the return; the open batch never   *)
(* holds more than 10,000 puts; Commit is only ever called on a batch it   *)
(* was not called on before, which is then replaced by a fresh batch or    *)
(* kept, committed, until the return; and no Put is issued to a batch      *)
(* after its Commit.                                                       *)
(***************************************************************************)
C16_OneOpenBatch ==
    /\ szPc = "loop" => ~szBatch.committed
    /\ szBatch.committed => szPc = "returned"
    /\ BagCardinality(szBatch.puts) <= BATCH_SIZE
    /\ szCommitsEnd <= 1

C16_CommitThenReplace ==
    /\ szBatch.committed
          => UNCHANGED <<szBatch, szPutBag, szCommitsMid, szCommitsEnd>>
    /\ (szCommitsMid' + szCommitsEnd' # szCommitsMid + szCommitsEnd)
          => /\ szCommitsMid' + szCommitsEnd' = szCommitsMid + szCommitsEnd + 1
             /\ ~szBatch.committed
             /\ szBatch' = NewBatch \/ szBatch'.committed
    /\ szPutBag' # szPutBag => ~szBatch.committed

C16_BatchLifecycle == []C16_OneOpenBatch /\ [][C16_CommitThenReplace]_vars

C16_Witness ==
    /\ szPc = "loop"
    /\ szCommitsMid = 1
    /\ ~szBatch.committed
    /\ BagCardinality(szBatch.puts) = 1
    /\ BagCardinality(szPutBag) = BATCH_SIZE + 1

(***************************************************************************)
(* C18: no size entry is silently abandoned. When ComputeSizes has         *)
(* returned, every entry it put belongs to a batch on which Commit was     *)
(* called: the batch it holds at the return is empty or was committed.     *)
(***************************************************************************)
C18_NoEntryAbandoned ==
    (szPc = "returned" /\ szBatcherOk)
        => (szBatch.puts = EmptyBag \/ szBatch.committed)

\* The label and the block coordinate a spatial map key holds.
SpatialMapKeyFields(key) ==
    [tag |-> key[1],
     label |-> FromBigEndian8(SubSeq(key, 2, 9)),
     zyx |-> SubSeq(key, 10, Len(key))]

\* Put p is the entry of label l of the map for the block of the call.
IsEntryOf(p, l) ==
    /\ Len(p.key) = 1 + 8 + IndexZYXSize
    /\ SpatialMapKeyFields(p.key) = [tag |-> KeyLabelSpatialMap, label |-> l, zyx |-> smZyx]
    /\ smLabelRLEs[l].ok
    /\ p.value = MarshalBinary(smLabelRLEs[l].runs)

AllMarshal == \A l \in DOMAIN smLabelRLEs : smLabelRLEs[l].ok

(***************************************************************************)
(* C17: StoreKeyLabelSpatialMap. Commit is called at most once, and        *)
(* exactly once when the function has returned; when every run set         *)
(* marshals the committed batch holds exactly one put per label of the     *)
(* map, keyed by (spatial-map tag, label, block coordinate) with the       *)
(* label's serialized runs as value; when marshalling fails for a label no *)
(* put is issued afterwards and the puts issued before, each the entry of  *)
(* a distinct label of the map, are still committed.                       *)
(***************************************************************************)
C17_CommittedBatch ==
    /\ smCommits <= 1
    /\ smPc = "returned" =>
         /\ smCommits = 1
         /\ smCommitted = smBatch
         /\ \A i \in 1..Len(smBatch) :
              \E l \in DOMAIN smLabelRLEs :
                 /\ IsEntryOf(smBatch[i], l)
                 /\ \A j \in 1..Len(smBatch) : IsEntryOf(smBatch[j], l) => j = i
         /\ AllMarshal
              => /\ ~smMarshalErr
                 /\ Len(smBatch) = Cardinality(DOMAIN smLabelRLEs)
                 /\ \A l \in DOMAIN smLabelRLEs :
                      \E i \in 1..Len(smBatch) : IsEntryOf(smBatch[i], l)
         /\ ~AllMarshal
              => /\ smMarshalErr
                 /\ Len(smBatch) < Cardinality(DOMAIN smLabelRLEs)

C17_NoPutAfterError ==
    (smMarshalErr \/ smCommits > 0) => UNCHANGED <<smBatch, smCommits, smCommitted, smStore>>

C17_StoreKeyLabelSpatialMap == []C17_CommittedBatch /\ [][C17_NoPutAfterError]_vars

C17_Witness ==
    /\ smPc = "returned"
    /\ DOMAIN smLabelRLEs = {0, 1, 2}
    /\ smLabelRLEs[0].ok /\ smLabelRLEs[2].ok /\ ~smLabelRLEs[1].ok
    /\ smMarshalErr
    /\ smCommits = 1
    /\ Len(smCommitted) = 1
    /\ IsEntryOf(smCommitted[1], 2)
    /\ smStore = {smCommitted[1]}

(***************************************************************************)
(* C19: producer progress. A producer that sends a finite stream and then  *)
(* the nil sentinel on a bounded channel to ComputeSurface or ComputeSizes *)
(* eventually completes its last send.                                     *)
(***************************************************************************)
C19_ProducerCompletes == <>(pdPc = "done")

====
